---- MODULE Spec2Model ----
\* A model of package bytespool (src/bytes_pool.go): the size-class pool of
\* byte blocks, and of package buffer (src/buffer/buffer.go): the growable,
\* reference-counted Buffer built on it.
EXTENDS Integers, Sequences, FiniteSets, TLC

VARIABLES
    defaultCapacityPools, \* the pool: [minSize, maxSize, maxIndex, pools]
    heap,                 \* heap[a]: the array allocated at address a (<<>>: none)
    pc,                   \* pc[c]: where caller c stands in its current call
    call,                 \* call[c]: the locals of caller c's current call
    held,                 \* held[c]: the slices caller c owns
    ret,                  \* ret[c]: what caller c's last call returned
    args,                 \* the arguments the pool was configured with
    bb,                   \* the Buffer: [B: its slice, c: its reference count]
    bufferPool,           \* number of Buffer wrappers put into the buffer pool
    hist                  \* what the holders of bb have done so far

bufVars == <<bb, bufferPool, hist>>
vars == <<defaultCapacityPools, heap, pc, call, held, ret, args, bufVars>>

----------------------------------------------------------------------------
\* Bounds of the model.

\* Number of concurrent callers of one pool.
NumCallers == 2
\* Number of distinct arrays the allocator hands out in one run.
MaxBlocks == 2
\* Number of slices one caller owns at a time.
MaxHeld == 1
\* Largest minSize / maxSize argument given to NewCapacityPools in Spec.
MaxMinArg == 3
MaxMaxArg == 8
\* The maxSize argument of the pool the concurrent callers share in SpecConc.
ConcMaxArg == 3
\* Largest minSize / maxSize argument given to InitDefaultPools in SpecCfg.
CfgMinArg == 8
CfgMaxArg == 20

Callers == 1..NumCallers
Addrs == 1..MaxBlocks

----------------------------------------------------------------------------
\* Program constants (src/bytes_pool.go:11-15).

minCapacity == 2
defaultMinSize == 2
defaultMaxSize == 8192

\* The nil pointer, the nil *bytesPool, the nil slice.
NilPtr == 0
NilPool == -1
NilSlice == [ptr |-> NilPtr, len |-> 0, cap |-> 0]

----------------------------------------------------------------------------
\* sync.Pool of a class: a bag of array pointers (address -> number of copies).

EmptyPool == [a \in Addrs |-> 0]

\* newBytesPool(size): a class of capacity size with an empty store.
newBytesPool(size) == [capacity |-> size, pool |-> EmptyPool]

\* A slip of the loop: i <= maxSize.
RECURSIVE ClassLoopLeq(_, _, _)
ClassLoopLeq(i, maxSize, acc) ==
    IF i <= maxSize
    THEN ClassLoopLeq(i * 2, maxSize, Append(acc, newBytesPool(i)))
    ELSE acc

\* The loop of NewCapacityPools: for i := minSize; i < maxSize; i *= 2.
RECURSIVE ClassLoop(_, _, _)
ClassLoop(i, maxSize, acc) ==
    IF i < maxSize
    THEN ClassLoop(i * 2, maxSize, Append(acc, newBytesPool(i)))
    ELSE acc

\* NewCapacityPools(minSize, maxSize): clamp, one class per doubling step, then
\* the terminal class. pools is indexed from 0 as in the source.
NewCapacityPools(minArg, maxArg) ==
    LET minSize == IF minArg < minCapacity THEN minCapacity ELSE minArg
        maxSize == IF maxArg < minSize THEN minSize ELSE maxArg
        seq == Append(ClassLoop(minSize, maxSize, <<>>), newBytesPool(maxSize))
    IN  [minSize  |-> minSize,
         maxSize  |-> maxSize,
         maxIndex |-> Len(seq) - 1,
         pools    |-> [i \in 0..(Len(seq) - 1) |-> seq[i + 1]]]

\* int(math.Ceil(math.Log2(float64(size) / float64(minSize)))) for
\* size > minSize > 0: the least k with minSize * 2^k >= size. (The quotient and
\* its logarithm are exact in float64 at the power-of-two boundaries for the
\* sizes of the model.)
RECURSIVE CeilLog2Ratio(_, _)
CeilLog2Ratio(size, minSize) ==
    IF size <= minSize THEN 0 ELSE 1 + CeilLog2Ratio(size, minSize * 2)

\* A slip of getPool: the index rounded down instead of up.
RECURSIVE FloorLog2Ratio(_, _)
FloorLog2Ratio(size, minSize) ==
    IF size < minSize * 2 THEN 0 ELSE 1 + FloorLog2Ratio(size, minSize * 2)

getPoolFloor(p, size) ==
    IF size <= p.minSize THEN 0
    ELSE IF size = p.maxSize THEN p.maxIndex
    ELSE IF size > p.maxSize THEN NilPool
    ELSE LET idx == FloorLog2Ratio(size, p.minSize)
         IN  IF idx > p.maxIndex THEN NilPool ELSE idx

\* A slip of getPool: a size above maxSize sent to the terminal class.
getPoolClamp(p, size) ==
    IF size <= p.minSize THEN 0
    ELSE IF size >= p.maxSize THEN p.maxIndex
    ELSE LET idx == CeilLog2Ratio(size, p.minSize)
         IN  IF idx > p.maxIndex THEN NilPool ELSE idx

\* p.getPool(size): the index of the class for size, or NilPool.
getPool(p, size) ==
    IF size <= p.minSize THEN 0
    ELSE IF size = p.maxSize THEN p.maxIndex
    ELSE IF size > p.maxSize THEN NilPool
    ELSE LET idx0 == CeilLog2Ratio(size, p.minSize)
             idx == IF idx0 < 0 THEN 0 ELSE idx0
         IN  IF idx > p.maxIndex THEN NilPool ELSE idx

----------------------------------------------------------------------------
\* The allocator: make([]byte, len, cap) takes the lowest unused address and
\* zeroes the array.
Zeros(n) == [i \in 1..n |-> 0]

FreeAddrs == {a \in Addrs : heap[a] = <<>>}
CanAlloc == FreeAddrs # {}
NextAddr == CHOOSE a \in FreeAddrs : \A b \in FreeAddrs : a <= b

\* sync.Pool.Get as New uses it: the outcomes are a stored pointer (taken out of
\* the store), or nil: the store's New hands back a *[]byte, the assertion
\* .(unsafe.Pointer) fails on it and leaves ptr nil. Get may miss a stored item
\* (it sits in another P's private slot), so nil is always possible.
\* Each outcome is <<ptr, the store afterwards>>.
\* A slip of New: the store never consulted, every block allocated afresh.
PoolGetMiss(pool) == {<<NilPtr, pool>>}

PoolGetKeep(pool) ==
    {<<a, pool>> : a \in {b \in Addrs : pool[b] > 0}} \cup {<<NilPtr, pool>>}

PoolGet(pool) ==
    {<<a, [pool EXCEPT ![a] = @ - 1]>> : a \in {b \in Addrs : pool[b] > 0}}
        \cup {<<NilPtr, pool>>}

\* sync.Pool.Put(ptr).
PoolPut(pool, ptr) == [pool EXCEPT ![ptr] = @ + 1]

\* The slice header New rebuilds around a stored pointer (lines 102-105).
SliceHeaderLenCap(ptr, size, capacity) ==
    [ptr |-> ptr, len |-> capacity, cap |-> capacity]

SliceHeader(ptr, size, capacity) ==
    [ptr |-> ptr, len |-> size, cap |-> capacity]

\* The checks of Release before the Put (lines 125-132): the index of the
\* class the block goes to, or NilPool when Release returns false.
ReleaseClassNoCapCheck(p, buf) ==
    LET n == buf.cap
    IN  IF n = 0 \/ n > p.maxSize THEN NilPool ELSE getPool(p, n)

ReleaseClass(p, buf) ==
    LET n == buf.cap
    IN  IF n = 0 \/ n > p.maxSize THEN NilPool
        ELSE LET bp == getPool(p, n)
             IN  IF bp = NilPool \/ n # p.pools[bp].capacity THEN NilPool ELSE bp

NoCall == [op |-> "none", size |-> 0, bp |-> NilPool, buf |-> NilSlice]
NoRet  == [op |-> "none", size |-> 0, buf |-> NilSlice, ok |-> FALSE,
           fresh |-> FALSE, panic |-> FALSE]

\* buf[:0] of Make: legal whenever 0 <= cap(buf).
Reslice0(buf) == [buf EXCEPT !.len = 0]

Result(op, buf) == IF op = "Make" THEN Reslice0(buf) ELSE buf

\* p.New(size) / p.Make(size), first part (lines 92-95): choose the class; a
\* size above maxSize bypasses the pool with make([]byte, size).
NewCall(c, op, size) ==
    /\ pc[c] = "idle"
    /\ Cardinality(held[c]) < MaxHeld
    /\ LET bp == getPool(defaultCapacityPools, size)
       IN  IF bp = NilPool
           THEN /\ CanAlloc
                /\ heap' = [heap EXCEPT ![NextAddr] = Zeros(size)]
                /\ ret' = [ret EXCEPT ![c] =
                       [op |-> op, size |-> size,
                        buf |-> Result(op, [ptr |-> NextAddr, len |-> size, cap |-> size]),
                        ok |-> TRUE, fresh |-> TRUE, panic |-> FALSE]]
                /\ pc' = [pc EXCEPT ![c] = "ret"]
                /\ UNCHANGED call
           ELSE /\ call' = [call EXCEPT ![c] =
                       [op |-> op, size |-> size, bp |-> bp, buf |-> NilSlice]]
                /\ pc' = [pc EXCEPT ![c] = "get"]
                /\ UNCHANGED <<heap, ret>>
    /\ UNCHANGED <<defaultCapacityPools, held, args, bufVars>>

New(c, size) == NewCall(c, "New", size)
Make(c, capacity) == NewCall(c, "Make", capacity)
NewMax(c) == NewCall(c, "New", defaultCapacityPools.maxSize)
NewMin(c) == NewCall(c, "New", defaultCapacityPools.minSize)
MakeMax(c) == NewCall(c, "Make", defaultCapacityPools.maxSize)
MakeMin(c) == NewCall(c, "Make", defaultCapacityPools.minSize)

\* New, second part (lines 97-107): bp.pool.Get(), then either
\* make([]byte, size, bp.capacity), which panics on a negative size, or the
\* header rebuilt around the stored pointer.
NewGet(c) ==
    /\ pc[c] = "get"
    /\ LET p == defaultCapacityPools
           bp == call[c].bp
           size == call[c].size
           op == call[c].op
           capacity == p.pools[bp].capacity
       IN  \E g \in PoolGet(p.pools[bp].pool) :
             IF g[1] = NilPtr
             THEN IF size < 0
                  THEN /\ ret' = [ret EXCEPT ![c] =
                              [op |-> op, size |-> size, buf |-> NilSlice,
                               ok |-> FALSE, fresh |-> TRUE, panic |-> TRUE]]
                       /\ UNCHANGED <<heap, defaultCapacityPools>>
                  ELSE /\ CanAlloc
                       /\ heap' = [heap EXCEPT ![NextAddr] = Zeros(capacity)]
                       /\ ret' = [ret EXCEPT ![c] =
                              [op |-> op, size |-> size,
                               buf |-> Result(op, [ptr |-> NextAddr, len |-> size,
                                                   cap |-> capacity]),
                               ok |-> TRUE, fresh |-> TRUE, panic |-> FALSE]]
                       /\ UNCHANGED defaultCapacityPools
             ELSE /\ defaultCapacityPools' =
                         [p EXCEPT !.pools[bp].pool = g[2]]
                  /\ ret' = [ret EXCEPT ![c] =
                         [op |-> op, size |-> size,
                          buf |-> Result(op, SliceHeader(g[1], size, capacity)),
                          ok |-> TRUE, fresh |-> FALSE, panic |-> FALSE]]
                  /\ UNCHANGED heap
    /\ pc' = [pc EXCEPT ![c] = "ret"]
    /\ call' = [call EXCEPT ![c] = NoCall]
    /\ UNCHANGED <<held, args, bufVars>>

\* p.Release(buf), first part (lines 125-132): the caller gives up buf; the
\* checks either return false or choose the class.
Release(c, buf) ==
    /\ pc[c] = "idle"
    /\ buf \in held[c]
    /\ held' = [held EXCEPT ![c] = @ \ {buf}]
    /\ LET bp == ReleaseClass(defaultCapacityPools, buf)
       IN  IF bp = NilPool
           THEN /\ ret' = [ret EXCEPT ![c] =
                       [op |-> "Release", size |-> 0, buf |-> buf,
                        ok |-> FALSE, fresh |-> FALSE, panic |-> FALSE]]
                /\ pc' = [pc EXCEPT ![c] = "ret"]
                /\ UNCHANGED call
           ELSE /\ call' = [call EXCEPT ![c] =
                       [op |-> "Release", size |-> 0, bp |-> bp, buf |-> buf]]
                /\ pc' = [pc EXCEPT ![c] = "put"]
                /\ UNCHANGED ret
    /\ UNCHANGED <<defaultCapacityPools, heap, args, bufVars>>

\* Release, second part (lines 134-135): bp.pool.Put(&buf[:1][0]); return true.
ReleasePut(c) ==
    /\ pc[c] = "put"
    /\ LET p == defaultCapacityPools
           bp == call[c].bp
       IN  defaultCapacityPools' =
               [p EXCEPT !.pools[bp].pool = PoolPut(@, call[c].buf.ptr)]
    /\ ret' = [ret EXCEPT ![c] =
           [op |-> "Release", size |-> 0, buf |-> call[c].buf,
            ok |-> TRUE, fresh |-> FALSE, panic |-> FALSE]]
    /\ pc' = [pc EXCEPT ![c] = "ret"]
    /\ call' = [call EXCEPT ![c] = NoCall]
    /\ UNCHANGED <<heap, held, args, bufVars>>

\* The caller takes the result of its call: a block that New or Make returned
\* is now owned by the caller.
Return(c) ==
    /\ pc[c] = "ret"
    /\ pc' = [pc EXCEPT ![c] = "idle"]
    /\ held' = [held EXCEPT ![c] =
           IF ret[c].op \in {"New", "Make"} /\ ~ret[c].panic
           THEN @ \cup {ret[c].buf} ELSE @]
    /\ ret' = [ret EXCEPT ![c] = NoRet]
    /\ UNCHANGED <<defaultCapacityPools, heap, call, args, bufVars>>

\* A caller brings a slice of its own, make([]byte, n), to release it later.
\* make([]byte, 0) allocates nothing.
Foreign(c, n) ==
    /\ pc[c] = "idle"
    /\ Cardinality(held[c]) < MaxHeld
    /\ IF n = 0
       THEN /\ held' = [held EXCEPT ![c] = @ \cup {[ptr |-> NilPtr, len |-> 0, cap |-> 0]}]
            /\ UNCHANGED heap
       ELSE /\ CanAlloc
            /\ heap' = [heap EXCEPT ![NextAddr] = Zeros(n)]
            /\ held' = [held EXCEPT ![c] = @ \cup {[ptr |-> NextAddr, len |-> n, cap |-> n]}]
    /\ UNCHANGED <<defaultCapacityPools, pc, call, ret, args, bufVars>>

\* The sizes callers ask for: negative, zero, every class and beyond maxSize.
Sizes == -1..(defaultCapacityPools.maxSize + 1)

\* hist: v0, the count bb started with; sum and mods, the sum and the number of
\* the deltas added by RefAdd, RefInc and RefDec; ops, the number of calls made;
\* calls[h], the RefSwapDec and Release calls of holder h; swapRet[h], the values
\* holder h's RefSwapDec calls returned.
NoHist == [v0 |-> 0, sum |-> 0, mods |-> 0,
           ops |-> 0,
           calls |-> [c \in Callers |-> <<>>],
           swapRet |-> [c \in Callers |-> <<>>]]

InitCallers ==
    /\ heap = [a \in Addrs |-> <<>>]
    /\ pc = [c \in Callers |-> "idle"]
    /\ call = [c \in Callers |-> NoCall]
    /\ held = [c \in Callers |-> {}]
    /\ ret = [c \in Callers |-> NoRet]
    /\ bb = [B |-> NilSlice, c |-> 0]
    /\ bufferPool = 0
    /\ hist = NoHist

\* One caller, every configuration (of arguments that need no clamping; SpecCfg
\* has the others) and every size.
Init ==
    /\ \E minArg \in minCapacity..MaxMinArg :
       \E maxArg \in minArg..MaxMaxArg :
          /\ defaultCapacityPools = NewCapacityPools(minArg, maxArg)
          /\ args = [minSize |-> minArg, maxSize |-> maxArg]
    /\ InitCallers

Next ==
    \E c \in {1} :
        \/ \E size \in Sizes : New(c, size)
        \/ \E size \in Sizes : Make(c, size)
        \/ NewMax(c)
        \/ NewMin(c)
        \/ MakeMax(c)
        \/ MakeMin(c)
        \/ NewGet(c)
        \/ \E n \in 0..(defaultCapacityPools.maxSize + 1) : Foreign(c, n)
        \/ \E buf \in held[c] : Release(c, buf)
        \/ ReleasePut(c)
        \/ Return(c)

Spec == Init /\ [][Next]_vars

\* Several callers on one pool, their calls interleaved step by step. Each
\* caller owns one block at a time and asks for a size of the smallest class,
\* of the terminal class, or beyond maxSize.
ConcSizes == {1, ConcMaxArg, ConcMaxArg + 1}

InitConc ==
    /\ defaultCapacityPools = NewCapacityPools(defaultMinSize, ConcMaxArg)
    /\ args = [minSize |-> defaultMinSize, maxSize |-> ConcMaxArg]
    /\ InitCallers

NextConc ==
    \E c \in Callers :
        \/ \E size \in ConcSizes : held[c] = {} /\ New(c, size)
        \/ \E size \in ConcSizes : held[c] = {} /\ Make(c, size)
        \/ NewGet(c)
        \/ \E buf \in held[c] : Release(c, buf)
        \/ ReleasePut(c)
        \/ Return(c)

SpecConc == InitConc /\ [][NextConc]_vars

\* InitDefaultPools(minSize, maxSize) (lines 32-34) replaces the default pool,
\* which starts as NewCapacityPools(defaultMinSize, defaultMaxSize) (line 17).
InitDefaultPools(minSize, maxSize) ==
    /\ defaultCapacityPools' = NewCapacityPools(minSize, maxSize)
    /\ args' = [minSize |-> minSize, maxSize |-> maxSize]
    /\ UNCHANGED <<heap, pc, call, held, ret, bufVars>>

InitCfg ==
    /\ defaultCapacityPools = NewCapacityPools(defaultMinSize, defaultMaxSize)
    /\ args = [minSize |-> defaultMinSize, maxSize |-> defaultMaxSize]
    /\ InitCallers

NextCfg ==
    \E minSize \in -1..CfgMinArg, maxSize \in -1..CfgMaxArg :
        InitDefaultPools(minSize, maxSize)

SpecCfg == InitCfg /\ [][NextCfg]_vars

----------------------------------------------------------------------------
\* The reference count of a Buffer (src/buffer/buffer.go:219-256), shared by
\* the holders of one Buffer. Every sync/atomic call is one step.

\* Number of reference-count calls the holders make in one run, all together.
MaxRefOps == 3

\* The deltas holders pass to RefAdd.
RefDeltas == {-3, 2}

\* A slip of RefAdd: the delta stored instead of added.
StoreInt64(c, delta) == delta

\* atomic.AddInt64(&bb.c, delta): the new value.
AddInt64(c, delta) == c + delta

\* A slip of RefSwapDec: the swap done without comparing.
SwapAlways(cur, old) == TRUE

\* atomic.CompareAndSwapInt64(&bb.c, old, new) succeeds iff bb.c is still old.
CompareAndSwapInt64(cur, old) == cur = old

\* A slip of RefSwapDec: the new value returned instead of the old one.
SwapDecNew(c) == c - 1

\* What RefSwapDec returns after a successful swap: the value it loaded.
SwapDecResult(c) == c

CanCall(h) == pc[h] = "idle" /\ hist.ops < MaxRefOps

Counted(h) == [hist EXCEPT !.ops = @ + 1]

RefRet(op, c, ok) == [op |-> op, c |-> c, ok |-> ok]

\* bb.RefAdd(delta) (lines 229-231).
RefAdd(h, delta) ==
    /\ CanCall(h)
    /\ bb' = [bb EXCEPT !.c = AddInt64(bb.c, delta)]
    /\ hist' = [Counted(h) EXCEPT !.sum = @ + delta, !.mods = @ + 1]
    /\ UNCHANGED <<defaultCapacityPools, heap, pc, call, held, ret, args, bufferPool>>

\* bb.RefInc() (lines 220-222) and bb.RefDec() (lines 225-227).
RefInc(h) == RefAdd(h, 1)
RefDec(h) == RefAdd(h, -1)

\* bb.RefValue() (lines 239-241).
RefValue(h) ==
    /\ CanCall(h)
    /\ ret' = [ret EXCEPT ![h] = RefRet("RefValue", bb.c, TRUE)]
    /\ pc' = [pc EXCEPT ![h] = "ret"]
    /\ hist' = Counted(h)
    /\ UNCHANGED <<defaultCapacityPools, heap, call, held, args, bb, bufferPool>>

\* A call of bb.RefSwapDec(), on its own or as the first thing Release(bb) does.
SwapDecCall(h, op) ==
    /\ CanCall(h)
    /\ call' = [call EXCEPT ![h] = [op |-> op, c |-> 0]]
    /\ pc' = [pc EXCEPT ![h] = "load"]
    /\ hist' = [Counted(h) EXCEPT !.calls[h] = Append(@, op)]
    /\ UNCHANGED <<defaultCapacityPools, heap, held, ret, args, bb, bufferPool>>

RefSwapDec(h) == SwapDecCall(h, "RefSwapDec")

\* Line 246: c = atomic.LoadInt64(&bb.c).
SwapDecLoad(h) ==
    /\ pc[h] = "load"
    /\ call' = [call EXCEPT ![h].c = bb.c]
    /\ pc' = [pc EXCEPT ![h] = "cas"]
    /\ UNCHANGED <<defaultCapacityPools, heap, held, ret, args, bufVars>>

\* Lines 247-249: the compare-and-swap; on success the call returns, and a
\* Release goes on to give the memory back when the value returned is 0;
\* on failure the loop loads again.
SwapDecCAS(h) ==
    /\ pc[h] = "cas"
    /\ IF CompareAndSwapInt64(bb.c, call[h].c)
       THEN LET r == SwapDecResult(call[h].c)
            IN  /\ bb' = [bb EXCEPT !.c = call[h].c - 1]
                /\ hist' = [hist EXCEPT !.swapRet[h] = Append(@, r)]
                /\ IF call[h].op = "RefSwapDec"
                   THEN /\ ret' = [ret EXCEPT ![h] = RefRet("RefSwapDec", r, TRUE)]
                        /\ pc' = [pc EXCEPT ![h] = "ret"]
                   ELSE IF r = 0
                   THEN /\ pc' = [pc EXCEPT ![h] = "free"]
                        /\ UNCHANGED ret
                   ELSE /\ ret' = [ret EXCEPT ![h] = RefRet("Release", r, FALSE)]
                        /\ pc' = [pc EXCEPT ![h] = "ret"]
                /\ UNCHANGED call
       ELSE /\ pc' = [pc EXCEPT ![h] = "load"]
            /\ UNCHANGED <<bb, hist, ret, call>>
    /\ UNCHANGED <<defaultCapacityPools, heap, held, args, bufferPool>>

\* Release(bb) of package buffer, which gives memory back only for the call
\* whose RefSwapDec returned 0.
BufferRelease(h) == SwapDecCall(h, "Release")

\* The last reference is gone: bb.B goes to the size-class pool and the wrapper
\* to the buffer pool; the result is what the size-class pool answered.
BufferFree(h) ==
    /\ pc[h] = "free"
    /\ LET p == defaultCapacityPools
           bp == ReleaseClass(p, bb.B)
       IN  /\ IF bp = NilPool
              THEN UNCHANGED defaultCapacityPools
              ELSE defaultCapacityPools' =
                       [p EXCEPT !.pools[bp].pool = PoolPut(@, bb.B.ptr)]
           /\ ret' = [ret EXCEPT ![h] = RefRet("Release", 0, bp # NilPool)]
    /\ bufferPool' = bufferPool + 1
    /\ pc' = [pc EXCEPT ![h] = "ret"]
    /\ UNCHANGED <<heap, call, held, args, bb, hist>>

\* The holder takes the result of its call.
RefReturn(h) ==
    /\ pc[h] = "ret"
    /\ pc' = [pc EXCEPT ![h] = "idle"]
    /\ ret' = [ret EXCEPT ![h] = NoRet]
    /\ UNCHANGED <<defaultCapacityPools, heap, call, held, args, bufVars>>

\* One Buffer made with a block of the terminal class, its count at v0, in the
\* hands of the holders.
InitRef ==
    /\ defaultCapacityPools = NewCapacityPools(defaultMinSize, ConcMaxArg)
    /\ args = [minSize |-> defaultMinSize, maxSize |-> ConcMaxArg]
    /\ heap = [a \in Addrs |-> IF a = 1 THEN Zeros(ConcMaxArg) ELSE <<>>]
    /\ pc = [c \in Callers |-> "idle"]
    /\ call = [c \in Callers |-> NoCall]
    /\ held = [c \in Callers |-> {}]
    /\ ret = [c \in Callers |-> NoRet]
    /\ \E v \in 0..(NumCallers - 1) :
          /\ bb = [B |-> [ptr |-> 1, len |-> 0, cap |-> ConcMaxArg], c |-> v]
          /\ hist = [NoHist EXCEPT !.v0 = v]
    /\ bufferPool = 0

NextRef ==
    \E h \in Callers :
        \/ RefInc(h)
        \/ RefDec(h)
        \/ \E delta \in RefDeltas : RefAdd(h, delta)
        \/ RefValue(h)
        \/ RefSwapDec(h)
        \/ BufferRelease(h)
        \/ SwapDecLoad(h)
        \/ SwapDecCAS(h)
        \/ BufferFree(h)
        \/ RefReturn(h)

SpecRef == InitRef /\ [][NextRef]_vars

----------------------------------------------------------------------------
\* Claims about the size-class pool.

\* A call of caller c has just returned (this step), and it was a call of op.
Returns(c, op) == pc[c] # "ret" /\ pc'[c] = "ret" /\ ret'[c].op = op

\* The class the documented rule selects for size s, 0 <= s <= maxSize:
\* the smallest class if s <= minSize, the terminal class if s = maxSize,
\* otherwise ceil(log2(s / minSize)) clamped into [0, maxIndex].
DocCeilLog2(s, m) ==
    CHOOSE k \in 0..s : m * 2^k >= s /\ \A j \in 0..(k - 1) : m * 2^j < s

DocClassIndex(p, s) ==
    IF s <= p.minSize THEN 0
    ELSE IF s = p.maxSize THEN p.maxIndex
    ELSE LET k == DocCeilLog2(s, p.minSize)
         IN  IF k < 0 THEN 0 ELSE IF k > p.maxIndex THEN p.maxIndex ELSE k

\* C1: for every size s with 0 <= s <= maxSize, New(s) returns a block of
\* length s whose capacity is the capacity of the class the documented rule
\* selects, and that capacity is at least s, whether the block is fresh or was
\* taken from the class's store.
C1_NewLengthAndClassCapacity ==
    \A c \in Callers :
        (/\ pc[c] = "ret"
         /\ ret[c].op = "New"
         /\ 0 <= ret[c].size
         /\ ret[c].size <= defaultCapacityPools.maxSize)
        => LET p == defaultCapacityPools
               s == ret[c].size
           IN  /\ ~ret[c].panic
               /\ ret[c].buf.len = s
               /\ ret[c].buf.cap = p.pools[DocClassIndex(p, s)].capacity
               /\ ret[c].buf.cap >= s

\* New(s) returned a block taken from the store of a class that is neither
\* the smallest nor chosen by s = maxSize, with s below the class capacity.
C1_Witness ==
    \E c \in Callers :
        /\ pc[c] = "ret"
        /\ ret[c].op = "New"
        /\ ~ret[c].fresh
        /\ ret[c].size > defaultCapacityPools.minSize
        /\ ret[c].size < defaultCapacityPools.maxSize
        /\ ret[c].buf.cap > ret[c].size

\* A capacity that Release accepts: nonzero, at most maxSize, and the capacity
\* of one of the classes.
LegalCapacity(p, n) ==
    /\ n # 0
    /\ n <= p.maxSize
    /\ \E i \in 0..p.maxIndex : p.pools[i].capacity = n

\* C2: Release(block) returns true if and only if the block's capacity is
\* nonzero, at most maxSize and the capacity of one of the classes; when it
\* returns true the block is stored in the class of that capacity and in no
\* other, and when it returns false no class store changes.
C2_ReleaseIffLegalCapacity ==
    [][\A c \in Callers :
          Returns(c, "Release") =>
            LET p == defaultCapacityPools
                q == defaultCapacityPools'
                buf == ret'[c].buf
            IN  /\ ret'[c].ok <=> LegalCapacity(p, buf.cap)
                /\ ret'[c].ok =>
                     \A i \in 0..p.maxIndex :
                        IF p.pools[i].capacity = buf.cap
                        THEN /\ q.pools[i].pool[buf.ptr] = p.pools[i].pool[buf.ptr] + 1
                             /\ \A a \in Addrs \ {buf.ptr} :
                                   q.pools[i].pool[a] = p.pools[i].pool[a]
                        ELSE q.pools[i].pool = p.pools[i].pool
                /\ ~ret'[c].ok => q = p]_vars

\* Release returned true for a block of a class other than the smallest, and
\* the block is in the store of that class.
C2_Witness ==
    \E c \in Callers :
        /\ pc[c] = "ret"
        /\ ret[c].op = "Release"
        /\ ret[c].ok
        /\ \E i \in 1..defaultCapacityPools.maxIndex :
              /\ defaultCapacityPools.pools[i].capacity = ret[c].buf.cap
              /\ defaultCapacityPools.pools[i].pool[ret[c].buf.ptr] = 1

\* The number of slices of the array at a that caller c owns: those it holds
\* and the one a returned New or Make is handing it.
HoldCount(c, a) ==
    Cardinality({b \in held[c] : b.ptr = a})
      + (IF /\ pc[c] = "ret"
            /\ ret[c].op \in {"New", "Make"}
            /\ ~ret[c].panic
            /\ ret[c].buf.ptr = a
         THEN 1 ELSE 0)

RECURSIVE SumOver(_, _)
SumOver(f, S) ==
    IF S = {} THEN 0
    ELSE LET x == CHOOSE y \in S : TRUE IN f[x] + SumOver(f, S \ {x})

\* The number of copies of the pointer a in the class stores.
StoreCount(a) ==
    SumOver([i \in 0..defaultCapacityPools.maxIndex |->
                defaultCapacityPools.pools[i].pool[a]],
            0..defaultCapacityPools.maxIndex)

\* C3: under any interleaving of New/Make and Release by several callers, each
\* releasing only whole blocks it holds and each at most once, no block is held
\* by two callers at once, nor held by a caller while it is in a class store.
C3_ExclusiveOwnership ==
    \A a \in Addrs :
        SumOver([c \in Callers |-> HoldCount(c, a)], Callers) + StoreCount(a) <= 1

\* A caller has been handed a block out of a class store while another caller
\* is about to Get from the same class.
C3_Witness ==
    \E c, d \in Callers :
        /\ c # d
        /\ pc[c] = "ret"
        /\ ret[c].op \in {"New", "Make"}
        /\ ~ret[c].fresh
        /\ pc[d] = "get"
        /\ defaultCapacityPools.pools[call[d].bp].capacity = ret[c].buf.cap

\* C4: NewCapacityPools(minSize, maxSize) clamps minSize to at least 2 and
\* maxSize to at least minSize, then builds strictly ascending classes: class i
\* has capacity minSize*2^i for every i with minSize*2^i < maxSize, followed by
\* exactly one terminal class of capacity maxSize, whose index is maxIndex.
C4_ClassLayout ==
    LET p == defaultCapacityPools
        m == IF args.minSize < 2 THEN 2 ELSE args.minSize
        x == IF args.maxSize < m THEN m ELSE args.maxSize
    IN  /\ p.minSize = m
        /\ p.maxSize = x
        /\ DOMAIN p.pools = 0..p.maxIndex
        /\ \A i \in 0..(p.maxIndex - 1) :
              /\ p.pools[i].capacity = m * 2^i
              /\ p.pools[i].capacity < p.pools[i + 1].capacity
        /\ \A i \in 0..(p.maxIndex - 1) : m * 2^i < x
        /\ m * 2^p.maxIndex >= x
        /\ p.pools[p.maxIndex].capacity = x
        /\ (args.minSize = 2 /\ args.maxSize = 8) =>
              [i \in 0..p.maxIndex |-> p.pools[i].capacity] = [i \in 0..2 |-> 2^(i + 1)]

\* A pool whose minSize was clamped, with two doubling classes below a maxSize
\* that is exactly the next doubling step.
C4_Witness ==
    /\ args.minSize < 2
    /\ defaultCapacityPools.maxIndex = 2
    /\ defaultCapacityPools.maxSize = 4 * defaultCapacityPools.minSize

\* C5: for a size above maxSize, New(size) returns a fresh block with
\* length = capacity = size and leaves every class store as it was, and every
\* later Release of that block returns false.
C5_BypassAboveMaxSize ==
    [][\A c \in Callers :
          /\ (Returns(c, "New") /\ ret'[c].size > defaultCapacityPools.maxSize)
             => /\ ret'[c].fresh
                /\ ~ret'[c].panic
                /\ ret'[c].buf.len = ret'[c].size
                /\ ret'[c].buf.cap = ret'[c].size
                /\ heap[ret'[c].buf.ptr] = <<>>
                /\ Len(heap'[ret'[c].buf.ptr]) = ret'[c].size
                /\ defaultCapacityPools' = defaultCapacityPools
          /\ (/\ Returns(c, "Release")
              /\ ret'[c].buf.ptr # NilPtr
              /\ Len(heap[ret'[c].buf.ptr]) > defaultCapacityPools.maxSize)
             => /\ ~ret'[c].ok
                /\ defaultCapacityPools' = defaultCapacityPools]_vars

\* A block that New returned for a size above maxSize has been released, and
\* Release returned false.
C5_Witness ==
    \E c \in Callers :
        /\ pc[c] = "ret"
        /\ ret[c].op = "Release"
        /\ ~ret[c].ok
        /\ ret[c].buf.cap > defaultCapacityPools.maxSize
        /\ ret[c].buf.len = ret[c].buf.cap

----------------------------------------------------------------------------
\* Claims about the reference count.

\* The number of decrements RefSwapDec has made so far.
SwapCount == SumOver([h \in Callers |-> Len(hist.swapRet[h])], Callers)

\* No holder is inside a call.
Quiet == \A h \in Callers : pc[h] = "idle"

\* C6: when the holders sharing one Buffer each release it once, in any
\* interleaving, the release is a no-op for every holder but the one giving up
\* the last reference: the block and the wrapper go back to their pools at
\* most once, and never while another holder still holds a reference. (A count
\* of v0 stands for v0 + 1 holders: the callers that release are that many at
\* most.)
C6_ReleaseOnlyByLastHolder ==
    (/\ hist.mods = 0
     /\ \A h \in Callers : hist.calls[h] \in {<<>>, <<"Release">>}
     /\ Cardinality({h \in Callers : hist.calls[h] # <<>>}) <= hist.v0 + 1)
    => /\ Cardinality({h \in Callers : pc[h] = "free"}) + bufferPool <= 1
       /\ StoreCount(bb.B.ptr) <= bufferPool
       /\ \A h \in Callers :
             (pc[h] = "ret" /\ ret[h].op = "Release" /\ ret[h].ok)
                => hist.swapRet[h] = <<0>>
       /\ ((\E h \in Callers : pc[h] = "free") \/ bufferPool > 0)
             => /\ SwapCount >= hist.v0 + 1
                /\ \A h \in Callers : hist.swapRet[h] # <<>> \/ hist.calls[h] = <<>>

\* Every holder of a Buffer shared by all of them has released it once, and the
\* block and the wrapper are back in their pools.
C6_Witness ==
    /\ hist.v0 = NumCallers - 1
    /\ hist.v0 > 0
    /\ hist.mods = 0
    /\ \A h \in Callers : hist.calls[h] = <<"Release">>
    /\ Quiet
    /\ bufferPool = 1
    /\ StoreCount(bb.B.ptr) = 1

\* C7: RefSwapDec decrements the count by exactly 1 and returns the value the
\* count held immediately before, under any interleaving with the other
\* reference-count calls; so when the count is k >= 0 and k+1 holders each call
\* RefSwapDec once with no other modification, the values returned are pairwise
\* distinct, exactly one of them is 0, and the count ends at -1.
C7_SwapDecAtomic ==
    /\ [][\A h \in Callers :
            hist'.swapRet[h] # hist.swapRet[h]
              => /\ bb'.c = bb.c - 1
                 /\ hist'.swapRet[h] = Append(hist.swapRet[h], bb.c)]_vars
    /\ [](LET S == {h \in Callers : hist.swapRet[h] # <<>>}
          IN  (/\ hist.mods = 0
               /\ \A h \in Callers : Len(hist.calls[h]) <= 1
               /\ \A h \in Callers : Len(hist.calls[h]) = Len(hist.swapRet[h])
               /\ Cardinality(S) = hist.v0 + 1)
              => /\ \A g, h \in S : g # h => hist.swapRet[g] # hist.swapRet[h]
                 /\ Cardinality({h \in S : hist.swapRet[h] = <<0>>}) = 1
                 /\ bb.c = -1)

\* Every holder has called RefSwapDec once on a count that started at the
\* number of the other holders, and nothing else touched the count.
C7_Witness ==
    /\ hist.v0 = NumCallers - 1
    /\ hist.mods = 0
    /\ \A h \in Callers : hist.calls[h] = <<"RefSwapDec">> /\ Len(hist.swapRet[h]) = 1
    /\ bb.c = -1

\* C8: no update of the count is lost: starting from v, after any interleaving
\* of RefInc, RefDec and RefAdd(d) calls (and RefSwapDec decrements) by the
\* holders, the count, and what RefValue returns, is v plus the deltas added,
\* minus the decrements; RefInc then RefDec on a fresh buffer leaves 0.
C8_NoLostUpdate ==
    /\ [](bb.c = hist.v0 + hist.sum - SwapCount)
    /\ [][\A h \in Callers :
            Returns(h, "RefValue")
              => ret'[h].c = hist.v0 + hist.sum - SwapCount]_vars

\* On a buffer whose count started at 0, a RefInc and a RefDec have been made
\* (the only two deltas of the model that cancel) and RefValue has returned 0.
C8_Witness ==
    /\ hist.v0 = 0
    /\ hist.mods = 2
    /\ hist.sum = 0
    /\ \E h \in Callers :
          pc[h] = "ret" /\ ret[h].op = "RefValue" /\ ret[h].c = 0

----------------------------------------------------------------------------
\* The growable Buffer (src/buffer/buffer.go), used by one goroutine. Its
\* size-class pool defaultPools.bs is the variable defaultCapacityPools.
\*
\* The machine word is scaled down: int has IntBits bits (64 in the usual
\* build) and the growth ceiling math.MaxInt32 is 2^CeilBits - 1 (2^31 - 1 in
\* the source), so that every int and every length can be enumerated.

IntBits == 5
CeilBits == 3
\* Number of different fillings a caller writes into the buffer.
MaxStamp == 1

MaxInt == 2^(IntBits - 1) - 1
MinInt == -(2^(IntBits - 1))
MaxInt32 == 2^CeilBits - 1

\* int arithmetic wraps around.
WrapInt(x) == ((x - MinInt) % 2^IntBits) + MinInt

\* The bytes a slice shows.
Bytes(h, B) == [i \in 1..B.len |-> h[B.ptr][i]]

\* A slip of append: the new bytes written over the start of the slice.
AppendAtStart(h, dst, src) ==
    [h EXCEPT ![dst.ptr] =
        [i \in 1..Len(@) |-> IF i <= Len(src) THEN src[i] ELSE @[i]]]

\* append(dst, src...) when it fits the capacity of dst: the bytes written in
\* place after len(dst).
AppendInPlace(h, dst, src) ==
    [h EXCEPT ![dst.ptr] =
        [i \in 1..Len(@) |->
            IF dst.len < i /\ i <= dst.len + Len(src) THEN src[i - dst.len] ELSE @[i]]]

\* make([]byte, size, capacity) on the heap h: the address, if one is left.
FreeIn(h) == {a \in Addrs : h[a] = <<>>}
FirstFree(h) == CHOOSE a \in FreeIn(h) : \A b \in FreeIn(h) : a <= b

\* defaultPools.bs.Make(size) on the pool p and the heap h
\* (src/bytes_pool.go:73-75, 91-108): every outcome [buf, p, h].
bsMake(p, h, size) ==
    LET bp == getPool(p, size)
        fresh(capacity) ==
            IF FreeIn(h) = {} \/ size < 0 THEN {}
            ELSE {[buf |-> Reslice0([ptr |-> FirstFree(h), len |-> size, cap |-> capacity]),
                   p |-> p,
                   h |-> [h EXCEPT ![FirstFree(h)] = Zeros(capacity)]]}
    IN  IF bp = NilPool
        THEN fresh(size)
        ELSE {[buf |-> Reslice0(SliceHeader(g[1], size, p.pools[bp].capacity)),
               p |-> [p EXCEPT !.pools[bp].pool = g[2]],
               h |-> h] : g \in {x \in PoolGet(p.pools[bp].pool) : x[1] # NilPtr}}
             \cup fresh(p.pools[bp].capacity)

\* defaultPools.bs.Release(buf) on the pool p and the heap h
\* (src/bytes_pool.go:124-136): [ok, p, h]. A block the pool rejects is left to
\* the garbage collector, which frees its address.
bsRelease(p, h, buf) ==
    LET bp == ReleaseClass(p, buf)
    IN  IF bp = NilPool
        THEN [ok |-> FALSE, p |-> p,
              h |-> IF buf.ptr = NilPtr THEN h ELSE [h EXCEPT ![buf.ptr] = <<>>]]
        ELSE [ok |-> TRUE,
              p |-> [p EXCEPT !.pools[bp].pool = PoolPut(@, buf.ptr)],
              h |-> h]

\* What a call on the buffer returned: the operation, and the panic it raised
\* ("none" when it returned normally).
BufRet(op, panic) == [op |-> op, panic |-> panic]

\* A slip of Guarantee: the old bytes not copied into the new block.
GuaranteeCopyNone(h, buf, B) == [h |-> h, buf |-> [buf EXCEPT !.len = B.len]]

\* Line 93: buf = append(buf, bb.B...), into the block Make returned.
GuaranteeCopy(h, buf, B) ==
    [h |-> AppendInPlace(h, buf, Bytes(h, B)),
     buf |-> [buf EXCEPT !.len = @ + B.len]]

\* Line 85: bSize := bLen + n, in int.
GuaranteeSize(bLen, n) == WrapInt(bLen + n)

\* bb.Guarantee(n) (lines 79-96): every outcome [panic, B, p, h].
GuaranteeOutcomes(n) ==
    LET B == bb.B
        p == defaultCapacityPools
        same(panic) == {[panic |-> panic, B |-> B, p |-> p, h |-> heap]}
        bLen == B.len
        bCap == B.cap
        bSize == GuaranteeSize(bLen, n)
    IN  IF n < 0 THEN same("ErrGrow")
        ELSE IF bCap >= bSize THEN same("none")
        ELSE IF bSize > MaxInt32 THEN same("ErrTooLarge")
        ELSE {LET cp == GuaranteeCopy(m.h, m.buf, B)
                  r == bsRelease(m.p, cp.h, B)
              IN  [panic |-> "none", B |-> cp.buf, p |-> r.p, h |-> r.h]
              : m \in bsMake(p, heap, bSize)}

Guarantee(n) ==
    /\ pc[1] = "idle"
    /\ \E o \in GuaranteeOutcomes(n) :
          /\ bb' = [bb EXCEPT !.B = o.B]
          /\ defaultCapacityPools' = o.p
          /\ heap' = o.h
          /\ ret' = [ret EXCEPT ![1] = BufRet("Guarantee", o.panic)]
    /\ pc' = [pc EXCEPT ![1] = "ret"]
    /\ UNCHANGED <<call, held, args, bufferPool, hist>>

\* bb.Grow(n) (lines 71-74): Guarantee(n), then bb.B = bb.B[:len(bb.B)+n], which
\* panics in the runtime when the new length is not within 0..cap.
Grow(n) ==
    /\ pc[1] = "idle"
    /\ \E o \in GuaranteeOutcomes(n) :
          LET k == WrapInt(o.B.len + n)
              inRange == 0 <= k /\ k <= o.B.cap
          IN  /\ bb' = [bb EXCEPT !.B =
                     IF o.panic = "none" /\ inRange THEN [o.B EXCEPT !.len = k] ELSE o.B]
              /\ defaultCapacityPools' = o.p
              /\ heap' = o.h
              /\ ret' = [ret EXCEPT ![1] =
                     BufRet("Grow",
                            IF o.panic # "none" THEN o.panic
                            ELSE IF inRange THEN "none" ELSE "slice bounds out of range")]
    /\ pc' = [pc EXCEPT ![1] = "ret"]
    /\ UNCHANGED <<call, held, args, bufferPool, hist>>

\* The caller writes into the bytes bb.B shows (B is an exported field): byte
\* i becomes 16*v + i.
Stamp(v) ==
    /\ pc[1] = "idle"
    /\ bb.B.len > 0
    /\ heap' = [heap EXCEPT ![bb.B.ptr] =
           [i \in 1..Len(@) |-> IF i <= bb.B.len THEN 16 * v + i ELSE @[i]]]
    /\ UNCHANGED <<defaultCapacityPools, pc, call, held, ret, args, bufVars>>

\* The caller takes the result of its call on the buffer.
BufReturn ==
    /\ pc[1] = "ret"
    /\ pc' = [pc EXCEPT ![1] = "idle"]
    /\ ret' = [ret EXCEPT ![1] = NoRet]
    /\ UNCHANGED <<defaultCapacityPools, heap, call, held, args, bufVars>>

\* A garbage collection empties the sync.Pool of class i; the arrays it held
\* are freed unless the buffer still points at them.
PoolGC(i) ==
    /\ \E a \in Addrs : defaultCapacityPools.pools[i].pool[a] > 0
    /\ heap' = [a \in Addrs |->
           IF defaultCapacityPools.pools[i].pool[a] > 0 /\ bb.B.ptr # a
           THEN <<>> ELSE heap[a]]
    /\ defaultCapacityPools' =
           [defaultCapacityPools EXCEPT !.pools[i].pool = EmptyPool]
    /\ UNCHANGED <<pc, call, held, ret, args, bufVars>>

\* The zero value of Buffer (line 22), over an empty size-class pool.
InitBuf ==
    /\ defaultCapacityPools = NewCapacityPools(defaultMinSize, ConcMaxArg)
    /\ args = [minSize |-> defaultMinSize, maxSize |-> ConcMaxArg]
    /\ InitCallers

NextBuf ==
    \/ \E n \in -1..MaxInt : Guarantee(n)
    \/ \E n \in -1..MaxInt : Grow(n)
    \/ \E v \in 1..MaxStamp : Stamp(v)
    \/ BufReturn
    \/ \E i \in 0..defaultCapacityPools.maxIndex : PoolGC(i)

SpecBuf == InitBuf /\ [][NextBuf]_vars

----------------------------------------------------------------------------
\* Claims about the growable Buffer.

\* The first k bytes the buffer shows are the same before and after the step.
KeepsBytes(k) ==
    \A i \in 1..k : heap'[bb'.B.ptr][i] = heap[bb.B.ptr][i]

\* C9: for all n >= 0 and every buffer of length L: after Guarantee(n) the
\* capacity is >= L+n, the length is still L and the first L bytes are
\* unchanged; after Grow(n) the length is L+n and the first L bytes are
\* unchanged.
C9_GuaranteeAndGrow ==
    [][\A n \in 0..MaxInt :
          /\ (Guarantee(n) /\ ret'[1].panic = "none")
                => (/\ bb'.B.cap >= bb.B.len + n
                    /\ bb'.B.len = bb.B.len
                    /\ KeepsBytes(bb.B.len))
          /\ (Grow(n) /\ ret'[1].panic = "none")
                => (/\ bb'.B.len = bb.B.len + n
                    /\ KeepsBytes(bb.B.len))]_vars

\* C10: Guarantee(n) with length + n above the ceiling 2^31 - 1 panics with
\* ErrTooLarge and leaves the buffer's content, length and backing block as
\* they were, for every buffer and every n >= 0 an int can hold.
C10_TooLargePanics ==
    [][\A n \in 0..MaxInt :
          (Guarantee(n) /\ bb.B.len + n > MaxInt32)
             => (/\ ret'[1].panic = "ErrTooLarge"
                 /\ bb' = bb
                 /\ heap' = heap
                 /\ defaultCapacityPools' = defaultCapacityPools)]_vars

----------------------------------------------------------------------------
\* More claims about the size-class pool.

\* The second part of caller c's New or Make returns the stored array a.
ReusesBlock(c, a) ==
    /\ NewGet(c)
    /\ ~ret'[c].fresh
    /\ ret'[c].buf.ptr = a
    /\ ret'[c].buf.cap = defaultCapacityPools.pools[call[c].bp].capacity
    /\ ret'[c].buf.len = (IF call[c].op = "Make" THEN 0 ELSE call[c].size)

\* C16: a block released at a legal class capacity can be reused: once
\* Release(b) has returned true, b sits in the store of the class of its
\* capacity, and whenever a New or Make of a size mapped to a class reaches the
\* store of that class, the step that returns a block stored there (the same
\* memory, with the class capacity and the requested length) is possible.
C16_ReleasedBlockReusable ==
    \A c \in Callers :
        /\ (pc[c] = "ret" /\ ret[c].op = "Release" /\ ret[c].ok)
              => \E i \in 0..defaultCapacityPools.maxIndex :
                    /\ defaultCapacityPools.pools[i].capacity = ret[c].buf.cap
                    /\ defaultCapacityPools.pools[i].pool[ret[c].buf.ptr] > 0
        /\ pc[c] = "get"
              => \A a \in Addrs :
                    defaultCapacityPools.pools[call[c].bp].pool[a] > 0
                       => ENABLED ReusesBlock(c, a)

\* A New of a positive size has returned memory taken out of a store, with
\* the class capacity and the requested length.
C16_Witness ==
    \E c \in Callers :
        /\ pc[c] = "ret"
        /\ ret[c].op = "New"
        /\ ~ret[c].fresh
        /\ ret[c].size > 0
        /\ ret[c].buf.ptr # NilPtr
        /\ ret[c].buf.len = ret[c].size
        /\ ret[c].buf.cap >= ret[c].size

\* C20: every block New(size) or Make(size) returns without faulting has
\* 0 <= length <= capacity, for every size, fresh or rebuilt from a stored
\* pointer.
C20_LengthWithinCapacity ==
    \A c \in Callers :
        (pc[c] = "ret" /\ ret[c].op \in {"New", "Make"} /\ ~ret[c].panic)
           => (0 <= ret[c].buf.len /\ ret[c].buf.len <= ret[c].buf.cap)

----------------------------------------------------------------------------
\* Writing into, cutting and reading the Buffer (src/buffer/buffer.go:98-156),
\* by one goroutine. Write and WriteString go through appendBytes and
\* appendString, which grow the slice from the size-class pool when it is full.

\* Number of calls made on the buffer in one run.
MaxBufOps == 3
\* Largest number of bytes given to one Write or WriteString.
MaxWrite == 5
\* Largest argument given to Guarantee, Grow and Truncate, and largest
\* destination given to Read.
MaxEditArg == 3

\* The bytes callers write: k bytes 16*v + 1, 16*v + 2, ...
Data(k, v) == [i \in 1..k |-> 16 * v + i]
\* None, one, as many as the smallest class holds, and more than that.
WriteLens == {0, 1, defaultMinSize, MaxWrite}
WriteData == {Data(k, v) : k \in WriteLens, v \in 1..MaxStamp}

\* appendBytes(buf, elems...): append when the capacity suffices; otherwise
\* a block for len(buf) + len(elems) from the size-class pool, the bytes of buf
\* copied into it, the old block released, then the append.
\* Every outcome [B, p, h].
appendBytes(p, h, B, elems) ==
    LET size == B.len + Len(elems)
        put(h1, buf) == IF Len(elems) = 0 THEN h1 ELSE AppendInPlace(h1, buf, elems)
    IN  IF B.cap >= size
        THEN {[B |-> [B EXCEPT !.len = size], p |-> p, h |-> put(h, B)]}
        ELSE {LET cp == GuaranteeCopy(m.h, m.buf, B)
                  r == bsRelease(m.p, cp.h, B)
              IN  [B |-> [cp.buf EXCEPT !.len = size],
                   p |-> r.p,
                   h |-> put(r.h, cp.buf)]
              : m \in bsMake(p, h, size)}

\* appendString(buf, s): the same on the bytes of the string.
appendString(p, h, B, s) == appendBytes(p, h, B, s)

\* What Write and WriteString return: the count and a nil error (x: the
\* bytes the caller passed).
WriteRet(op, x) == [op |-> op, panic |-> "none", n |-> Len(x), err |-> "nil", x |-> x]

\* A call may start: the caller is idle and has calls left.
CanEdit == pc[1] = "idle" /\ hist.ops < MaxBufOps

\* Writes that would pass the growth ceiling are left out.
WriteCall(op, outcomes, x) ==
    /\ CanEdit
    /\ bb.B.len + Len(x) <= MaxInt32
    /\ \E o \in outcomes :
          /\ bb' = [bb EXCEPT !.B = o.B]
          /\ defaultCapacityPools' = o.p
          /\ heap' = o.h
    /\ ret' = [ret EXCEPT ![1] = WriteRet(op, x)]
    /\ pc' = [pc EXCEPT ![1] = "ret"]
    /\ UNCHANGED <<call, held, args, bufferPool, hist>>

\* bb.Write(p) (lines 116-119).
Write(x) ==
    WriteCall("Write", appendBytes(defaultCapacityPools, heap, bb.B, x), x)

\* bb.WriteString(s) (lines 134-137).
WriteString(x) ==
    WriteCall("WriteString", appendString(defaultCapacityPools, heap, bb.B, x), x)

\* A slip of Truncate: n checked against the capacity.
TruncateInCap(B, n) == ~(n < 0 \/ n > B.cap)

\* Line 101: the index is within the length.
TruncateInRange(B, n) == ~(n < 0 \/ n > B.len)

\* A slip of Truncate: the capacity cut as well, as by B[:n:n].
ResliceFull(B, n) == [B EXCEPT !.len = n, !.cap = n]

\* bb.B[:n].
Reslice(B, n) == [B EXCEPT !.len = n]

\* bb.Truncate(n) (lines 100-105).
Truncate(n) ==
    /\ CanEdit
    /\ IF TruncateInRange(bb.B, n)
       THEN /\ bb' = [bb EXCEPT !.B = Reslice(bb.B, n)]
            /\ ret' = [ret EXCEPT ![1] = BufRet("Truncate", "none")]
       ELSE /\ bb' = bb
            /\ ret' = [ret EXCEPT ![1] = BufRet("Truncate", "ErrTruncation")]
    /\ pc' = [pc EXCEPT ![1] = "ret"]
    /\ UNCHANGED <<defaultCapacityPools, heap, call, held, args, bufferPool, hist>>

\* bb.Reset() (lines 108-110).
Reset ==
    /\ CanEdit
    /\ bb' = [bb EXCEPT !.B = Reslice(bb.B, 0)]
    /\ ret' = [ret EXCEPT ![1] = BufRet("Reset", "none")]
    /\ pc' = [pc EXCEPT ![1] = "ret"]
    /\ UNCHANGED <<defaultCapacityPools, heap, call, held, args, bufferPool, hist>>

\* The byte a destination holds before Read copies into it.
DstFill == 255

\* n = copy(p, bb.B): the number of bytes copied.
copyCount(m, l) == IF m < l THEN m ELSE l

\* A slip of Read: the bytes read taken off the buffer.
ReadConsumes(B, n) == [B EXCEPT !.len = @ - n]

\* Read leaves bb.B as it is.
ReadLeaves(B, n) == B

\* bb.Read(p) (lines 153-156), p a slice of m bytes of the caller's own.
Read(m) ==
    /\ CanEdit
    /\ LET n == copyCount(m, bb.B.len)
       IN  /\ ret' = [ret EXCEPT ![1] =
                  [op |-> "Read", panic |-> "none", n |-> n, err |-> "nil",
                   p |-> [i \in 1..m |->
                            IF i <= n THEN heap[bb.B.ptr][i] ELSE DstFill]]]
           /\ bb' = [bb EXCEPT !.B = ReadLeaves(bb.B, n)]
    /\ pc' = [pc EXCEPT ![1] = "ret"]
    /\ UNCHANGED <<defaultCapacityPools, heap, call, held, args, bufferPool, hist>>

\* The caller takes the result of its call; the call is counted.
EditReturn ==
    /\ pc[1] = "ret"
    /\ pc' = [pc EXCEPT ![1] = "idle"]
    /\ ret' = [ret EXCEPT ![1] = NoRet]
    /\ hist' = [hist EXCEPT !.ops = @ + 1]
    /\ UNCHANGED <<defaultCapacityPools, heap, call, held, args, bb, bufferPool>>

\* The counts callers pass: the least int, -1, and the small ones.
EditArgs == {MinInt} \cup (-1..MaxEditArg)

NextEdit ==
    \/ \E x \in WriteData : Write(x)
    \/ \E x \in WriteData : WriteString(x)
    \/ \E n \in EditArgs : CanEdit /\ Guarantee(n)
    \/ \E n \in EditArgs : CanEdit /\ Grow(n)
    \/ \E n \in EditArgs : Truncate(n)
    \/ Reset
    \/ \E m \in 0..MaxEditArg : Read(m)
    \/ EditReturn
    \/ \E i \in 0..defaultCapacityPools.maxIndex : PoolGC(i)

SpecEdit == InitBuf /\ [][NextEdit]_vars

----------------------------------------------------------------------------
\* Claims about writing into, cutting and reading the Buffer.

\* The number of copies of the pointer a in the class stores of the pool p.
StoreCountIn(p, a) ==
    SumOver([i \in 0..p.maxIndex |-> p.pools[i].pool[a]], 0..p.maxIndex)

\* The class of capacity n.
ClassOf(p, n) == CHOOSE i \in 0..p.maxIndex : p.pools[i].capacity = n

\* The step leaves the buffer, the memory and the pool as they were.
SameBuffer ==
    /\ bb' = bb
    /\ heap' = heap
    /\ defaultCapacityPools' = defaultCapacityPools

\* A step of Guarantee, Grow, Write or WriteString that returns normally with
\* another backing block than before.
GrowthStep ==
    /\ pc[1] = "idle"
    /\ pc'[1] = "ret"
    /\ ret'[1].op \in {"Guarantee", "Grow", "Write", "WriteString"}
    /\ ret'[1].panic = "none"
    /\ bb'.B.ptr # bb.B.ptr

\* C11: when a growth step replaces the backing block, the existing bytes are
\* in the new block, the old block is in the store of the class of its
\* capacity (once, when that capacity is a legal class capacity; nowhere
\* otherwise) and the new block is in no store; and whenever the caller is
\* between calls or holds a result, the block the buffer owns is in no store.
C11_GrowthReplacesBlock ==
    /\ [][GrowthStep =>
            LET old == bb.B
                p == defaultCapacityPools
                q == defaultCapacityPools'
            IN  /\ KeepsBytes(old.len)
                /\ bb'.B.len >= old.len
                /\ bb'.B.cap >= bb'.B.len
                /\ StoreCountIn(q, bb'.B.ptr) = 0
                /\ old.ptr # NilPtr =>
                      IF LegalCapacity(p, old.cap)
                      THEN /\ StoreCountIn(q, old.ptr) = 1
                           /\ q.pools[ClassOf(p, old.cap)].pool[old.ptr] = 1
                      ELSE StoreCountIn(q, old.ptr) = 0]_vars
    /\ [](bb.B.ptr # NilPtr => StoreCount(bb.B.ptr) = 0)

\* A buffer of the smallest class capacity has received a WriteString that did
\* not fit: it is longer than that capacity, in another block, and the old
\* block, with the bytes that were copied, is in the store of the smallest class.
C11_Witness ==
    /\ pc[1] = "ret"
    /\ ret[1].op = "WriteString"
    /\ ret[1].n = MaxWrite
    /\ bb.B.len = defaultMinSize + MaxWrite
    /\ bb.B.cap >= bb.B.len
    /\ Bytes(heap, bb.B) = Data(defaultMinSize, 1) \o Data(MaxWrite, 1)
    /\ \E a \in Addrs :
          /\ a # bb.B.ptr
          /\ defaultCapacityPools.pools[0].pool[a] = 1
          /\ heap[a] = Data(defaultMinSize, 1)

\* C12: Write(x) returns len(x) and a nil error, and leaves the buffer holding
\* its previous content followed by x, whether or not the block had to be
\* replaced; on an empty buffer Bytes() is then exactly x.
C12_WriteRoundTrip ==
    [][(pc[1] = "idle" /\ pc'[1] = "ret" /\ ret'[1].op = "Write") =>
          LET x == ret'[1].x
          IN  /\ ret'[1].panic = "none"
              /\ ret'[1].n = Len(x)
              /\ ret'[1].err = "nil"
              /\ Bytes(heap', bb'.B) = Bytes(heap, bb.B) \o x
              /\ (bb.B.len = 0 => Bytes(heap', bb'.B) = x)]_vars

\* The first call on the zero-value buffer was a Write of more bytes than its
\* capacity, and the buffer shows exactly those bytes.
C12_Witness ==
    /\ pc[1] = "ret"
    /\ ret[1].op = "Write"
    /\ hist.ops = 0
    /\ ret[1].n = MaxWrite
    /\ Bytes(heap, bb.B) = Data(MaxWrite, 1)

\* C14: Truncate(n) with 0 <= n <= length sets the length to n and leaves the
\* capacity, the backing block and the bytes unchanged; Truncate(length)
\* changes nothing; Reset() does what Truncate(0) does; a Reset of an empty
\* buffer changes nothing.
C14_TruncateAndReset ==
    [][/\ \A n \in 0..MaxEditArg :
            (Truncate(n) /\ n <= bb.B.len) =>
               /\ ret'[1].panic = "none"
               /\ bb'.B = [ptr |-> bb.B.ptr, len |-> n, cap |-> bb.B.cap]
               /\ bb'.c = bb.c
               /\ heap' = heap
               /\ defaultCapacityPools' = defaultCapacityPools
               /\ (n = bb.B.len => SameBuffer)
       /\ (Reset \/ Truncate(0)) =>
               /\ ret'[1].panic = "none"
               /\ bb'.B = [ptr |-> bb.B.ptr, len |-> 0, cap |-> bb.B.cap]
               /\ bb'.c = bb.c
               /\ heap' = heap
               /\ defaultCapacityPools' = defaultCapacityPools
               /\ (bb.B.len = 0 => SameBuffer)]_vars

\* A buffer of two bytes has been cut to one: the capacity is still two and the
\* second byte is still in the block.
C14_Witness ==
    /\ pc[1] = "ret"
    /\ ret[1].op = "Truncate"
    /\ ret[1].panic = "none"
    /\ bb.B.len = 1
    /\ bb.B.cap = 2
    /\ heap[bb.B.ptr] = Data(2, 1)

\* C15: Truncate(n) with n < 0 or n > length panics with ErrTruncation, and
\* Guarantee(n) and Grow(n) with n < 0 panic with ErrGrow; the buffer's length,
\* capacity and content are unchanged and the pool is not touched.
C15_ContractViolations ==
    [][\A n \in EditArgs :
          /\ (Truncate(n) /\ (n < 0 \/ n > bb.B.len)) =>
                (ret'[1].panic = "ErrTruncation" /\ SameBuffer)
          /\ (n < 0 /\ (Guarantee(n) \/ Grow(n))) =>
                (ret'[1].panic = "ErrGrow" /\ SameBuffer)]_vars

\* A Truncate on a buffer with bytes in it, and room after them, has panicked.
C15_Witness ==
    /\ pc[1] = "ret"
    /\ ret[1].op = "Truncate"
    /\ ret[1].panic = "ErrTruncation"
    /\ 0 < bb.B.len
    /\ bb.B.len < bb.B.cap

\* C17: Read(dst) copies the first min(len(dst), length) bytes of the buffer
\* into dst and leaves the rest of dst alone, returns that count and a nil
\* error (also on an empty buffer), and leaves the buffer's length, capacity
\* and content unchanged, so that a Read repeated returns the same.
C17_ReadLeavesBuffer ==
    [][\A m \in 0..MaxEditArg :
          Read(m) =>
             LET n == IF m < bb.B.len THEN m ELSE bb.B.len
             IN  /\ ret'[1].panic = "none"
                 /\ ret'[1].err = "nil"
                 /\ ret'[1].n = n
                 /\ Len(ret'[1].p) = m
                 /\ \A i \in 1..m :
                       ret'[1].p[i] = IF i <= n THEN heap[bb.B.ptr][i] ELSE DstFill
                 /\ SameBuffer]_vars

\* A Read into a destination longer than the buffer has returned the two
\* bytes of the buffer.
C17_Witness ==
    /\ pc[1] = "ret"
    /\ ret[1].op = "Read"
    /\ ret[1].n = 2
    /\ bb.B.len = 2
    /\ ret[1].p = <<17, 18, DstFill>>

----------------------------------------------------------------------------
\* Buffer.ReadFrom (src/buffer/buffer.go:161-191), by one goroutine. Every
\* turn of its loop is two steps: the check of the room left, which may double
\* the block, and the Read of the source.
\*
\* The source r holds finitely many bytes, 64 + 1, 64 + 2, ..., and then fails
\* with an error, io.EOF or another. Handed a non-empty destination it
\* delivers at least one byte or its error (the last bytes may come with the
\* error); handed an empty one it returns (0, nil).

\* Number of calls made on the buffer in one run.
MaxReadOps == 2

\* Most bytes a source holds: enough to fill a block to the ceiling after
\* one doubling.
MaxSource == 2^(CeilBits - 1) - 1
\* The maxSize of the size-class pool under the buffer: half the ceiling,
\* so that a block of the terminal class doubles to the ceiling.
ReadMaxArg == 2^(CeilBits - 1)

\* The first k bytes of the source.
SrcBytes(k) == [j \in 1..k |-> 64 + j]

\* The errors sources end with.
SrcErrors == {"EOF", "ErrSrc"}

\* defaultPools.bs.New(size) on the pool p and the heap h
\* (src/bytes_pool.go:91-108): every outcome [buf, p, h]; none when the
\* allocator has no memory left.
bsNew(p, h, size) ==
    LET bp == getPool(p, size)
        fresh(capacity) ==
            IF FreeIn(h) = {} \/ size < 0 THEN {}
            ELSE {[buf |-> [ptr |-> FirstFree(h), len |-> size, cap |-> capacity],
                   p |-> p,
                   h |-> [h EXCEPT ![FirstFree(h)] = Zeros(capacity)]]}
    IN  IF bp = NilPool
        THEN fresh(size)
        ELSE {[buf |-> SliceHeader(g[1], size, p.pools[bp].capacity),
               p |-> [p EXCEPT !.pools[bp].pool = g[2]],
               h |-> h] : g \in {x \in PoolGet(p.pools[bp].pool) : x[1] # NilPtr}}
             \cup fresh(p.pools[bp].capacity)

\* The garbage collector frees the array at a once no slice of the set live
\* and no class store of p refers to it.
Drop(h, p, a, live) ==
    IF a # NilPtr /\ a \notin live /\ StoreCountIn(p, a) = 0
    THEN [h EXCEPT ![a] = <<>>]
    ELSE h

\* copy(dst, src): the first min(len(dst), len(src)) bytes.
CopyInto(h, dst, src) ==
    LET k == IF dst.len < src.len THEN dst.len ELSE src.len
    IN  IF k = 0 THEN h
        ELSE [h EXCEPT ![dst.ptr] =
                 [i \in 1..Len(@) |-> IF i <= k THEN h[src.ptr][i] ELSE @[i]]]

\* Lines 171-174: bCap *= 2, capped at math.MaxInt32.
DoubleCap(bCap) ==
    LET d == WrapInt(bCap * 2)
    IN  IF d > MaxInt32 THEN MaxInt32 ELSE d

\* What ReadFrom returns: the count and the error; k, the number of bytes the
\* source delivered in the call, and prior, the bytes the buffer showed when
\* the call began.
ReadFromRet(n, err, panic, c) ==
    [op |-> "ReadFrom", panic |-> panic, n |-> n, err |-> err,
     k |-> c.pos, prior |-> c.prior]

\* A slip of ReadFrom: the error of the source returned as it is, io.EOF too.
SourceErrRaw(err) == err

\* Lines 185-188: io.EOF is reported as nil, another error as it is.
SourceErr(err) == IF err = "EOF" THEN "nil" ELSE err

CanRead == pc[1] = "idle" /\ hist.ops < MaxReadOps

\* bb.ReadFrom(r), lines 162-165, r a source of total bytes that ends with fin.
ReadFrom(total, fin) ==
    /\ CanRead
    /\ call' = [call EXCEPT ![1] =
           [op |-> "ReadFrom",
            bLen |-> bb.B.len,
            bCap |-> bb.B.cap,
            n |-> bb.B.len,
            p |-> [bb.B EXCEPT !.len = bb.B.cap],
            total |-> total, fin |-> fin, pos |-> 0,
            prior |-> Bytes(heap, bb.B)]]
    /\ pc' = [pc EXCEPT ![1] = "rf.top"]
    /\ UNCHANGED <<defaultCapacityPools, heap, held, ret, args, bufVars>>

\* Lines 167-179: when the block is full, return ErrTooLarge at the ceiling,
\* otherwise take a block of twice the capacity from the size-class pool, copy
\* into it and release the old one. bb.B is not assigned here.
ReadFromTop ==
    /\ pc[1] = "rf.top"
    /\ LET c == call[1]
           pools == defaultCapacityPools
           bCap == DoubleCap(c.bCap)
           news == bsNew(pools, heap, bCap)
       IN  IF c.n # c.bCap
           THEN /\ pc' = [pc EXCEPT ![1] = "rf.read"]
                /\ UNCHANGED <<defaultCapacityPools, heap, call, ret>>
           ELSE IF c.n = MaxInt32
           THEN /\ ret' = [ret EXCEPT ![1] = ReadFromRet(c.n, "ErrTooLarge", "none", c)]
                /\ heap' = Drop(heap, pools, c.p.ptr, {bb.B.ptr})
                /\ pc' = [pc EXCEPT ![1] = "ret"]
                /\ call' = [call EXCEPT ![1] = NoCall]
                /\ UNCHANGED defaultCapacityPools
           ELSE IF news = {}
           THEN /\ ret' = [ret EXCEPT ![1] = ReadFromRet(0, "nil", "out of memory", c)]
                /\ heap' = Drop(heap, pools, c.p.ptr, {bb.B.ptr})
                /\ pc' = [pc EXCEPT ![1] = "ret"]
                /\ call' = [call EXCEPT ![1] = NoCall]
                /\ UNCHANGED defaultCapacityPools
           ELSE \E m \in news :
                   LET h1 == CopyInto(m.h, m.buf, c.p)
                       bp == ReleaseClass(m.p, c.p)
                       p2 == IF bp = NilPool THEN m.p
                             ELSE [m.p EXCEPT !.pools[bp].pool = PoolPut(@, c.p.ptr)]
                   IN  /\ defaultCapacityPools' = p2
                       /\ heap' = Drop(h1, p2, c.p.ptr, {bb.B.ptr, m.buf.ptr})
                       /\ call' = [call EXCEPT ![1].bCap = bCap, ![1].p = m.buf]
                       /\ pc' = [pc EXCEPT ![1] = "rf.read"]
                       /\ UNCHANGED ret
    /\ UNCHANGED <<held, args, bufVars>>

\* Lines 180-189: nn, err := r.Read(p[n:]); n += nn; on an error bb.B = p[:n]
\* and the call returns n - bLen and the error (nil for io.EOF).
ReadFromRead ==
    /\ pc[1] = "rf.read"
    /\ LET c == call[1]
           d == c.p.len - c.n
           rem == c.total - c.pos
           most == IF d < rem THEN d ELSE rem
           filled(nn) == [heap EXCEPT ![c.p.ptr] =
                            [i \in 1..Len(@) |->
                                IF c.n < i /\ i <= c.n + nn
                                THEN 64 + c.pos + (i - c.n) ELSE @[i]]]
           goOn(nn) ==
               /\ heap' = (IF nn = 0 THEN heap ELSE filled(nn))
               /\ call' = [call EXCEPT ![1].n = c.n + nn, ![1].pos = c.pos + nn]
               /\ pc' = [pc EXCEPT ![1] = "rf.top"]
               /\ UNCHANGED <<bb, ret>>
           stop(nn) ==
               LET c2 == [c EXCEPT !.n = c.n + nn, !.pos = c.pos + nn]
                   h1 == IF nn = 0 THEN heap ELSE filled(nn)
               IN  /\ bb' = [bb EXCEPT !.B = [c.p EXCEPT !.len = c2.n]]
                   /\ heap' = Drop(h1, defaultCapacityPools, bb.B.ptr, {c.p.ptr})
                   /\ ret' = [ret EXCEPT ![1] =
                          ReadFromRet(c2.n - c.bLen, SourceErr(c.fin), "none", c2)]
                   /\ call' = [call EXCEPT ![1] = NoCall]
                   /\ pc' = [pc EXCEPT ![1] = "ret"]
       IN  IF d = 0 THEN goOn(0)
           ELSE IF rem = 0 THEN stop(0)
           ELSE \/ \E nn \in 1..most : goOn(nn)
                \/ (most = rem /\ stop(rem))
    /\ UNCHANGED <<defaultCapacityPools, held, args, bufferPool, hist>>

\* The zero value of Buffer over an empty size-class pool whose terminal class
\* is half the ceiling.
InitRead ==
    /\ defaultCapacityPools = NewCapacityPools(defaultMinSize, ReadMaxArg)
    /\ args = [minSize |-> defaultMinSize, maxSize |-> ReadMaxArg]
    /\ InitCallers

\* The buffers ReadFrom is called on are the zero value grown by nothing, by
\* one byte, to a full block of the smallest and of the terminal class, and
\* to the ceiling.
ReadGrowArgs == {0, 1, defaultMinSize, ReadMaxArg, MaxInt32}

\* The numbers of bytes the sources hold.
SourceLens == 0..MaxSource

NextRead ==
    \/ \E n \in ReadGrowArgs : CanRead /\ Grow(n)
    \/ \E v \in 1..MaxStamp : Stamp(v)
    \/ \E total \in SourceLens, fin \in SrcErrors : ReadFrom(total, fin)
    \/ ReadFromTop
    \/ ReadFromRead
    \/ EditReturn
    \/ \E i \in 0..defaultCapacityPools.maxIndex : PoolGC(i)

SpecRead == InitRead /\ [][NextRead]_vars

\* The goroutine inside ReadFrom keeps running.
SpecReadLive == SpecRead /\ WF_vars(ReadFromTop) /\ WF_vars(ReadFromRead)

----------------------------------------------------------------------------
\* Claims about ReadFrom.

\* C13: when the source ends, with end-of-stream or with another error,
\* ReadFrom returns the number k of bytes the source delivered in the call, all
\* it held, with a nil error for end-of-stream and with the source's error
\* otherwise, and the buffer holds its previous content followed by those k
\* bytes in order, whatever doublings there were.
C13_ReadFromAppendsAll ==
    [][(pc[1] = "rf.read" /\ pc'[1] = "ret") =>
          LET c == call[1]
              r == ret'[1]
          IN  /\ r.op = "ReadFrom"
              /\ r.panic = "none"
              /\ r.k = c.total
              /\ r.n = r.k
              /\ r.err = (IF c.fin = "EOF" THEN "nil" ELSE c.fin)
              /\ bb'.B.len = Len(c.prior) + r.k
              /\ bb'.B.len <= bb'.B.cap
              /\ Bytes(heap', bb'.B) = c.prior \o SrcBytes(r.k)]_vars

\* A full buffer of the terminal class has read a source up to the ceiling,
\* after a doubling, and the source failed with an error of its own.
C13_Witness ==
    /\ pc[1] = "ret"
    /\ ret[1].op = "ReadFrom"
    /\ ret[1].err = "ErrSrc"
    /\ ret[1].k = MaxSource
    /\ ret[1].n = MaxSource
    /\ ret[1].prior = Data(ReadMaxArg, 1)
    /\ Bytes(heap, bb.B) = Data(ReadMaxArg, 1) \o SrcBytes(MaxSource)

\* C18: ReadFrom always terminates, for every buffer, the zero value included,
\* and every source of finitely many bytes that delivers at least one byte or
\* an error into a non-empty destination and (0, nil) into an empty one.
C18_ReadFromTerminates ==
    (pc[1] \in {"rf.top", "rf.read"}) ~> (pc[1] = "ret")

\* C19: on every return path of ReadFrom, the return of ErrTooLarge included,
\* bb.B refers to the block that holds the prior content followed by all the
\* bytes read, and never to a block that is in a class store.
C19_ReadFromKeepsData ==
    (pc[1] = "ret" /\ ret[1].op = "ReadFrom" /\ ret[1].panic = "none") =>
        /\ Bytes(heap, bb.B) = ret[1].prior \o SrcBytes(ret[1].k)
        /\ bb.B.ptr # NilPtr => StoreCount(bb.B.ptr) = 0

====
